---------------------------- MODULE Spec2Model ----------------------------
(***************************************************************************)
(* A model of the cluster coordination core of kafkajs:                    *)
(*   - SubscriptionState (pause / resume / paused / isPaused),             *)
(*   - Cluster.findLeaderForPartitions,                                    *)
(*   - Cluster.addTargetTopic / addMultipleTargetTopics / refreshMetadata  *)
(*     running as concurrent asynchronous calls,                           *)
(*   - Cluster.metadata, findBroker, findGroupCoordinator and              *)
(*     findGroupCoordinatorMetadata with their retry / bail decisions.     *)
(* BrokerPool and the retrier are collaborators whose source is not part   *)
(* of the modelled files; they are modelled from their documented          *)
(* contract.                                                               *)
(***************************************************************************)
EXTENDS Integers, Sequences, FiniteSets, TLC

VARIABLES
    \* ---- SubscriptionState
    pausedPartitionsByTopic, \* this.pausedPartitionsByTopic
    subCall,                 \* observer: the last pause/resume call, what its arguments named,
                             \* and the state it started from
    roundTrip,               \* observer: a pause([{t,P}]) directly followed by resume([{t,P}])
    \* ---- Cluster.findLeaderForPartitions
    metadata,                \* this.brokerPool.metadata (the snapshot)
    leaderCall,              \* the arguments and the result of the last findLeaderForPartitions call
    \* ---- Cluster target topics, concurrent calls
    targetTopics,            \* this.targetTopics
    inflight,                \* BrokerPool's in-flight metadata fetch (single-flight)
    tasks,                   \* each asynchronous caller's position in addMultipleTargetTopics
    completedRefreshes,      \* observer: the topic lists of the fetches that completed
    \* ---- Cluster.metadata / findBroker / findGroupCoordinator(Metadata): one call at a time
    pc,                      \* position of the running call
    call,                    \* the running top-level operation and its counters
    held,                    \* the errors and values held by the frames of the running call
    lastAttempt,             \* observer: how the last attempt of a retrier-wrapped operation ended
    lastFindBroker,          \* observer: how the last Cluster.findBroker call ended
    lastCoordinatorMetadata, \* observer: how the last findGroupCoordinatorMetadata call ended
    outcome,                 \* what the top-level call surfaced to its caller
    \* ---- Cluster.fetchTopicsOffset
    offsetFetch,             \* the fetchTopicsOffset call: its index, its requests, its result
    \* ---- Cluster.committedOffsets / markOffsetAsCommitted
    committedOffsetsByGroup, \* this.committedOffsetsByGroup
    offsetCall               \* observer: the last committedOffsets / markOffsetAsCommitted call

subVars == <<pausedPartitionsByTopic, subCall, roundTrip>>
leaderVars == <<metadata, leaderCall>>
topicVars == <<targetTopics, inflight, tasks, completedRefreshes>>
callVars == <<pc, call, held, lastAttempt, lastFindBroker, lastCoordinatorMetadata, outcome>>
offsetVars == <<offsetFetch, committedOffsetsByGroup, offsetCall>>
vars == <<subVars, leaderVars, topicVars, callVars, offsetVars>>

-----------------------------------------------------------------------------
(* Bounds of the model *)

\* longest partitions array handed to pause / resume
MaxArrayLen == 2
\* longest list of partition ids handed to findLeaderForPartitions
MaxPartitionsLen == 3
\* number of asynchronous callers of the Cluster that run at the same time
NumTasks == 2
\* the retrier's `retries` option: attempts after the first one
Retries == 2
\* longest partitions array of an entry handed to fetchTopicsOffset
MaxFetchPartitions == 2

-----------------------------------------------------------------------------
(***************************************************************************)
(* SubscriptionState                                                       *)
(***************************************************************************)

Topics == {"a", "b"}
Partitions == {0, 1}

\* The `partitions` field of an argument entry: absent (undefined), an array,
\* or a value that is neither (null, a number, ...).
ArraysUpTo(n) == UNION {[1..k -> Partitions] : k \in 0..n}
PartitionArgs ==
    {[kind |-> "undefined", items |-> <<>>], [kind |-> "other", items |-> <<>>]}
        \cup {[kind |-> "array", items |-> a] : a \in ArraysUpTo(MaxArrayLen)}
Entries == {[topic |-> t, partitions |-> p] : t \in Topics, p \in PartitionArgs}
EntryLists ==
    {<<>>} \cup {<<e>> : e \in Entries} \cup {<<e1, e2>> : e1 \in Entries, e2 \in Entries}

Range(s) == {s[i] : i \in 1..Len(s)}

\* A topic without an entry in pausedPartitionsByTopic. The `all` field of an
\* entry is "true", "false" or "undefined" (resume creates entries without it).
NoEntry == [present |-> FALSE, partitions |-> {}, all |-> "undefined"]
NoError == "none"
NonRetriable == "KafkaJSNonRetriableError"

\* pause's array branch without `pausedForTopic.all = false`
pauseEntryKeepsAll(state, entry) ==
    LET pausedForTopic ==
            IF state[entry.topic].present
            THEN state[entry.topic]
            ELSE [present |-> TRUE, partitions |-> {}, all |-> "false"]
        updated ==
            IF entry.partitions.kind = "undefined"
            THEN [pausedForTopic EXCEPT !.partitions = {}, !.all = "true"]
            ELSE IF entry.partitions.kind = "array"
            THEN [pausedForTopic EXCEPT
                     !.partitions = @ \cup Range(entry.partitions.items)]
            ELSE pausedForTopic
    IN  [state EXCEPT ![entry.topic] = updated]

\* The body of pause's forEach for one entry.
pauseEntry(state, entry) ==
    LET pausedForTopic ==
            IF state[entry.topic].present
            THEN state[entry.topic]
            ELSE [present |-> TRUE, partitions |-> {}, all |-> "false"]
        updated ==
            IF entry.partitions.kind = "undefined"
            THEN [pausedForTopic EXCEPT !.partitions = {}, !.all = "true"]
            ELSE IF entry.partitions.kind = "array"
            THEN [pausedForTopic EXCEPT
                     !.partitions = @ \cup Range(entry.partitions.items),
                     !.all = "false"]
            ELSE pausedForTopic
    IN  [state EXCEPT ![entry.topic] = updated]

RECURSIVE pause(_, _)
pause(state, topicPartitions) ==
    IF topicPartitions = <<>>
    THEN state
    ELSE pause(pauseEntry(state, Head(topicPartitions)), Tail(topicPartitions))

\* resume that removes the named partitions of an entirely paused topic
\* instead of refusing
resumeEntryNoThrow(state, entry) ==
    LET pausedForTopic ==
            IF state[entry.topic].present
            THEN state[entry.topic]
            ELSE [present |-> TRUE, partitions |-> {}, all |-> "undefined"]
        updated ==
            IF entry.partitions.kind = "undefined"
            THEN [pausedForTopic EXCEPT !.partitions = {}, !.all = "false"]
            ELSE IF entry.partitions.kind = "array"
            THEN [pausedForTopic EXCEPT
                     !.partitions = @ \ Range(entry.partitions.items)]
            ELSE pausedForTopic
    IN  [state |-> [state EXCEPT ![entry.topic] = updated], error |-> NoError]

\* resume that clears the whole paused set when given an array
resumeEntryClears(state, entry) ==
    LET pausedForTopic ==
            IF state[entry.topic].present
            THEN state[entry.topic]
            ELSE [present |-> TRUE, partitions |-> {}, all |-> "undefined"]
        updated ==
            IF entry.partitions.kind = "undefined"
            THEN [pausedForTopic EXCEPT !.partitions = {}, !.all = "false"]
            ELSE IF entry.partitions.kind = "array" /\ pausedForTopic.all # "true"
            THEN [pausedForTopic EXCEPT !.partitions = {}]
            ELSE pausedForTopic
    IN  IF entry.partitions.kind = "array" /\ pausedForTopic.all = "true"
        THEN [state |-> state, error |-> NonRetriable]
        ELSE [state |-> [state EXCEPT ![entry.topic] = updated], error |-> NoError]

\* The body of resume's forEach for one entry: the new state, and the error
\* it throws (the throw comes before the assignment to pausedPartitionsByTopic).
resumeEntry(state, entry) ==
    LET pausedForTopic ==
            IF state[entry.topic].present
            THEN state[entry.topic]
            ELSE [present |-> TRUE, partitions |-> {}, all |-> "undefined"]
        updated ==
            IF entry.partitions.kind = "undefined"
            THEN [pausedForTopic EXCEPT !.partitions = {}, !.all = "false"]
            ELSE IF entry.partitions.kind = "array" /\ pausedForTopic.all # "true"
            THEN [pausedForTopic EXCEPT
                     !.partitions = @ \ Range(entry.partitions.items)]
            ELSE pausedForTopic
    IN  IF entry.partitions.kind = "array" /\ pausedForTopic.all = "true"
        THEN [state |-> state, error |-> NonRetriable]
        ELSE [state |-> [state EXCEPT ![entry.topic] = updated], error |-> NoError]

\* forEach stops at the first entry that throws; what earlier entries did stays.
RECURSIVE resume(_, _)
resume(state, topicPartitions) ==
    IF topicPartitions = <<>>
    THEN [state |-> state, error |-> NoError]
    ELSE LET r == resumeEntry(state, Head(topicPartitions))
         IN  IF r.error # NoError
             THEN r
             ELSE resume(r.state, Tail(topicPartitions))

\* paused(): one record per entry of pausedPartitionsByTopic. The order of the
\* list and of each partitions array is not modelled.
paused(state) ==
    {[topic |-> t, partitions |-> state[t].partitions, all |-> state[t].all] :
        t \in {u \in Topics : state[u].present}}

isPaused(state, topic, partition) ==
    /\ state[topic].present
    /\ (state[topic].all = "true" \/ partition \in state[topic].partitions)

\* What a call's argument list names, for the observer: the topics of which
\* some entry names specific partitions (an array) with no earlier entry of
\* the list naming the topic as a whole, and those among them for which that
\* array is empty.
NamedTopics(topicPartitions) ==
    {t \in Topics :
        \E i \in 1..Len(topicPartitions) :
            /\ topicPartitions[i].topic = t
            /\ topicPartitions[i].partitions.kind = "array"
            /\ \A j \in 1..(i - 1) :
                   ~(/\ topicPartitions[j].topic = t
                     /\ topicPartitions[j].partitions.kind = "undefined")}
NamedEmpty(topicPartitions) ==
    {t \in NamedTopics(topicPartitions) :
        \A i \in 1..Len(topicPartitions) :
            topicPartitions[i].topic = t => topicPartitions[i].partitions.items = <<>>}

NoCall == [op |-> "none", entries |-> 0, named |-> {}, namedEmpty |-> {},
           error |-> NoError, before |-> [t \in Topics |-> NoEntry]]
NoRoundTrip ==
    [stage |-> "none", topic |-> "a", items |-> <<>>, before |-> NoEntry, fresh |-> FALSE]

SubInit ==
    /\ pausedPartitionsByTopic = [t \in Topics |-> NoEntry]
    /\ subCall = NoCall
    /\ roundTrip = NoRoundTrip

Pause(topicPartitions) ==
    /\ pausedPartitionsByTopic' = pause(pausedPartitionsByTopic, topicPartitions)
    /\ subCall' = [op |-> "pause", entries |-> Len(topicPartitions),
                   named |-> NamedTopics(topicPartitions),
                   namedEmpty |-> NamedEmpty(topicPartitions),
                   error |-> NoError, before |-> pausedPartitionsByTopic]
    /\ roundTrip' =
           IF /\ Len(topicPartitions) = 1
              /\ topicPartitions[1].partitions.kind = "array"
           THEN [stage |-> "paused",
                 topic |-> topicPartitions[1].topic,
                 items |-> topicPartitions[1].partitions.items,
                 before |-> pausedPartitionsByTopic[topicPartitions[1].topic],
                 fresh |-> pausedPartitionsByTopic = [t \in Topics |-> NoEntry]]
           ELSE NoRoundTrip

Resume(topicPartitions) ==
    LET r == resume(pausedPartitionsByTopic, topicPartitions)
    IN  /\ pausedPartitionsByTopic' = r.state
        /\ subCall' = [op |-> "resume", entries |-> Len(topicPartitions),
                       named |-> NamedTopics(topicPartitions),
                       namedEmpty |-> NamedEmpty(topicPartitions),
                       error |-> r.error, before |-> pausedPartitionsByTopic]
        /\ roundTrip' =
               IF /\ roundTrip.stage = "paused"
                  /\ topicPartitions =
                         <<[topic |-> roundTrip.topic,
                            partitions |-> [kind |-> "array", items |-> roundTrip.items]]>>
               THEN [roundTrip EXCEPT !.stage = "resumed"]
               ELSE NoRoundTrip

PauseCall ==
    \E a \in EntryLists : Pause(a) /\ UNCHANGED <<leaderVars, topicVars, callVars, offsetVars>>
ResumeCall ==
    \E a \in EntryLists : Resume(a) /\ UNCHANGED <<leaderVars, topicVars, callVars, offsetVars>>


-----------------------------------------------------------------------------
(***************************************************************************)
(* Cluster.findTopicPartitionMetadata and Cluster.findLeaderForPartitions  *)
(***************************************************************************)

\* Node ids are written as the object keys they become in the result; a
\* partition whose leader field is null or undefined has leader NullLeader.
Nodes == {"1", "2"}
NullLeader == "null"
KnownPartitionIds == {0, 1, 2}

TopicMetadataNotLoaded == "KafkaJSTopicMetadataNotLoaded"
InvalidPartitionMetadata == "KafkaJSError: Invalid partition metadata"

\* The snapshot: absent, without topicMetadata, or with a list of topics.
NoMetadata == [loaded |-> FALSE, hasTopicMetadata |-> FALSE, topicMetadata |-> <<>>]
NoTopicMetadata == [loaded |-> TRUE, hasTopicMetadata |-> FALSE, topicMetadata |-> <<>>]

\* partitionMetadata lists, one per assignment of "no metadata", "no leader"
\* or a leader to the partitions 0, 1, 2 (in ascending partitionId order).
RECURSIVE PartitionMetadataOf(_, _)
PartitionMetadataOf(f, ids) ==
    IF ids = {}
    THEN <<>>
    ELSE LET id == CHOOSE x \in ids : \A y \in ids : x <= y
             rest == PartitionMetadataOf(f, ids \ {id})
         IN  IF f[id] = "missing"
             THEN rest
             ELSE <<[partitionId |-> id, leader |-> f[id]]>> \o rest
PartitionMetadatas ==
    {PartitionMetadataOf(f, KnownPartitionIds) :
        f \in [KnownPartitionIds -> Nodes \cup {NullLeader, "missing"}]}

OtherTopic == [topic |-> "b", partitionMetadata |-> <<[partitionId |-> 0, leader |-> "2"],
                                                       [partitionId |-> 1, leader |-> "2"],
                                                       [partitionId |-> 2, leader |-> "1"]>>]
Snapshots ==
    {NoMetadata, NoTopicMetadata,
     [loaded |-> TRUE, hasTopicMetadata |-> TRUE, topicMetadata |-> <<OtherTopic>>]}
        \cup {[loaded |-> TRUE, hasTopicMetadata |-> TRUE,
               topicMetadata |-> <<OtherTopic, [topic |-> "a", partitionMetadata |-> pm]>>] :
                  pm \in PartitionMetadatas}

\* A partition id as the caller passes it: a number, or the string of its
\* decimal digits. parseInt(id, 10) gives the number in both cases.
PartitionIdArgs ==
    {[type |-> "number", digits |-> n] : n \in 0..3}
        \cup {[type |-> "string", digits |-> n] : n \in 0..1}
PartitionIdLists == UNION {[1..k -> PartitionIdArgs] : k \in 0..MaxPartitionsLen}
parseInt(id) == id.digits

\* Array.prototype.find: the index of the first element that matches, 0 if none.
FindIndex(list, Matches(_)) ==
    IF \E i \in 1..Len(list) : Matches(list[i])
    THEN CHOOSE i \in 1..Len(list) :
             Matches(list[i]) /\ \A j \in 1..(i - 1) : ~Matches(list[j])
    ELSE 0

\* findTopicPartitionMetadata that answers an absent snapshot with an empty list
findTopicPartitionMetadataLenient(md, topic) ==
    IF ~md.loaded \/ ~md.hasTopicMetadata
    THEN [error |-> NoError, value |-> <<>>]
    ELSE LET IsTopic(t) == t.topic = topic
             i == FindIndex(md.topicMetadata, IsTopic)
         IN  [error |-> NoError,
              value |-> IF i = 0 THEN <<>> ELSE md.topicMetadata[i].partitionMetadata]

findTopicPartitionMetadata(md, topic) ==
    IF ~md.loaded \/ ~md.hasTopicMetadata
    THEN [error |-> TopicMetadataNotLoaded, value |-> <<>>]
    ELSE LET IsTopic(t) == t.topic = topic
             i == FindIndex(md.topicMetadata, IsTopic)
         IN  [error |-> NoError,
              value |-> IF i = 0 THEN <<>> ELSE md.topicMetadata[i].partitionMetadata]

EmptyObject == [n \in {} |-> <<>>]

\* the reducer with `current` always empty: a leader's list is overwritten
leaderReducerOverwrites(partitionMetadata, acc, id) ==
    LET partitionId == parseInt(id)
        IsPartition(p) == p.partitionId = partitionId
        i == FindIndex(partitionMetadata, IsPartition)
    IN  IF i = 0
        THEN acc
        ELSE IF partitionMetadata[i].leader = NullLeader
        THEN [error |-> InvalidPartitionMetadata, result |-> acc.result]
        ELSE LET leader == partitionMetadata[i].leader
             IN  [error |-> NoError,
                  result |-> [n \in DOMAIN acc.result \cup {leader} |->
                                 IF n = leader THEN <<partitionId>> ELSE acc.result[n]]]

\* The reducer of findLeaderForPartitions for one partition id.
leaderReducer(partitionMetadata, acc, id) ==
    LET partitionId == parseInt(id)
        IsPartition(p) == p.partitionId = partitionId
        i == FindIndex(partitionMetadata, IsPartition)
    IN  IF i = 0
        THEN acc
        ELSE IF partitionMetadata[i].leader = NullLeader
        THEN [error |-> InvalidPartitionMetadata, result |-> acc.result]
        ELSE LET leader == partitionMetadata[i].leader
                 current == IF leader \in DOMAIN acc.result THEN acc.result[leader] ELSE <<>>
             IN  [error |-> NoError,
                  result |-> [n \in DOMAIN acc.result \cup {leader} |->
                                 IF n = leader
                                 THEN Append(current, partitionId)
                                 ELSE acc.result[n]]]

\* partitions.reduce(..., {}): a throw ends the reduction.
RECURSIVE leaderReduce(_, _, _)
leaderReduce(partitionMetadata, acc, partitions) ==
    IF partitions = <<>> \/ acc.error # NoError
    THEN acc
    ELSE leaderReduce(partitionMetadata,
                      leaderReducer(partitionMetadata, acc, Head(partitions)),
                      Tail(partitions))

findLeaderForPartitions(md, topic, partitions) ==
    LET found == findTopicPartitionMetadata(md, topic)
    IN  IF found.error # NoError
        THEN [error |-> found.error, result |-> EmptyObject]
        ELSE LET r == leaderReduce(found.value,
                                   [error |-> NoError, result |-> EmptyObject],
                                   partitions)
             IN  IF r.error # NoError
                 THEN [error |-> r.error, result |-> EmptyObject]
                 ELSE r

NoLeaderCall == [called |-> FALSE, topic |-> "a", partitions |-> <<>>,
                 error |-> NoError, result |-> EmptyObject]

\* Any snapshot may be the current one when findLeaderForPartitions is called.
LeaderInit ==
    /\ metadata \in Snapshots
    /\ leaderCall = NoLeaderCall

FindLeaderForPartitions(topic, partitions) ==
    LET r == findLeaderForPartitions(metadata, topic, partitions)
    IN  /\ ~leaderCall.called
        /\ leaderCall' = [called |-> TRUE, topic |-> topic, partitions |-> partitions,
                          error |-> r.error, result |-> r.result]
        /\ UNCHANGED metadata

FindLeaderForPartitionsCall ==
    \E partitions \in PartitionIdLists :
        FindLeaderForPartitions("a", partitions) /\ UNCHANGED <<subVars, offsetVars, topicVars, callVars>>

-----------------------------------------------------------------------------
(***************************************************************************)
(* Cluster.addTargetTopic / addMultipleTargetTopics / refreshMetadata,     *)
(* called by several asynchronous callers. An action is the code that runs *)
(* between two suspension points of one caller.                            *)
(***************************************************************************)

TaskIds == 1..NumTasks
TopicLists == {<<>>} \cup {<<t>> : t \in Topics} \cup {<<t, u>> : t \in Topics, u \in Topics}

IdleTask == [pc |-> "idle", api |-> "none", topics |-> <<>>, targetedBefore |-> {},
             hadSnapshot |-> FALSE, refreshes |-> 0]
\* invocations: the Broker.metadata requests issued for the callers that are
\* waiting.
NoFetch == [active |-> FALSE, topics |-> <<>>, invocations |-> 0]

\* this.targetTopics is a Set: its elements in insertion order.
RECURSIVE addAll(_, _)
addAll(targets, topics) ==
    IF topics = <<>>
    THEN targets
    ELSE addAll(IF Head(topics) \in Range(targets) THEN targets ELSE Append(targets, Head(topics)),
                Tail(topics))

\* hasChanged with "and" in place of "or"
hasChangedBoth(previousSize, targets, md) == previousSize # Len(targets) /\ ~md.loaded

hasChanged(previousSize, targets, md) == previousSize # Len(targets) \/ ~md.loaded

\* BrokerPool.refreshMetadata without the in-flight check: every caller
\* begins a fetch of its own.
poolRefreshMetadataEachFetches(fetch, topics) ==
    [active |-> TRUE, topics |-> topics, invocations |-> fetch.invocations + 1]

\* BrokerPool.refreshMetadata(topics), single-flight: a caller that finds a
\* fetch in flight shares it, otherwise a fetch for `topics` begins with one
\* Broker.metadata request.
poolRefreshMetadata(fetch, topics) ==
    IF fetch.active
    THEN fetch
    ELSE [active |-> TRUE, topics |-> topics, invocations |-> 1]

\* The snapshot that a metadata response for `topics` installs.
SnapshotFor(topics) ==
    [loaded |-> TRUE, hasTopicMetadata |-> TRUE,
     topicMetadata |-> [i \in 1..Len(topics) |-> [topic |-> topics[i], partitionMetadata |-> <<>>]]]

\* addMultipleTargetTopics up to its first suspension: the union into the
\* target set, the decision, and the call of refreshMetadata (which hands
\* Array.from(this.targetTopics) to the pool).
AddMultipleTargetTopics(k, api, topics) ==
    LET previousSize == Len(targetTopics)
        targets == addAll(targetTopics, topics)
        changed == hasChanged(previousSize, targets, metadata)
    IN  /\ tasks[k].pc \in {"idle", "returned", "failed"}
        /\ targetTopics' = targets
        /\ inflight' = IF changed THEN poolRefreshMetadata(inflight, targets) ELSE inflight
        /\ tasks' = [tasks EXCEPT ![k] =
               [pc |-> IF changed THEN "awaitRefresh" ELSE "returned",
                api |-> api,
                topics |-> topics,
                targetedBefore |-> Range(topics) \cap Range(targetTopics),
                hadSnapshot |-> metadata.loaded,
                refreshes |-> IF changed THEN 1 ELSE 0]]
        /\ UNCHANGED <<metadata, completedRefreshes>>

AddTargetTopicCall ==
    \E k \in TaskIds, t \in Topics :
        /\ AddMultipleTargetTopics(k, "addTargetTopic", <<t>>)
        /\ UNCHANGED <<subVars, offsetVars, leaderCall, callVars>>

AddMultipleTargetTopicsCall ==
    \E k \in TaskIds, topics \in TopicLists :
        /\ AddMultipleTargetTopics(k, "addMultipleTargetTopics", topics)
        /\ UNCHANGED <<subVars, offsetVars, leaderCall, callVars>>

\* Cluster.refreshMetadata(), called directly (as findBroker and
\* findGroupCoordinator call it): Array.from(this.targetTopics) goes to the
\* pool and the caller waits for the pool's promise.
RefreshMetadata(k) ==
    /\ tasks[k].pc \in {"idle", "returned", "failed"}
    /\ inflight' = poolRefreshMetadata(inflight, targetTopics)
    /\ tasks' = [tasks EXCEPT ![k] =
           [pc |-> "awaitRefresh",
            api |-> "refreshMetadata",
            topics |-> <<>>,
            targetedBefore |-> {},
            hadSnapshot |-> metadata.loaded,
            refreshes |-> 1]]
    /\ UNCHANGED <<targetTopics, metadata, completedRefreshes>>

RefreshMetadataCall ==
    \E k \in TaskIds :
        /\ RefreshMetadata(k)
        /\ UNCHANGED <<subVars, offsetVars, leaderCall, callVars>>

\* The fetch in flight completes: the snapshot is installed and every caller
\* that shares the fetch is resolved.
RefreshCompletes ==
    /\ inflight.active
    /\ metadata' = SnapshotFor(inflight.topics)
    /\ completedRefreshes' = completedRefreshes \cup {inflight.topics}
    /\ inflight' = NoFetch
    /\ tasks' = [k \in TaskIds |->
                    IF tasks[k].pc = "awaitRefresh"
                    THEN [tasks[k] EXCEPT !.pc = "resolved"]
                    ELSE tasks[k]]
    /\ UNCHANGED <<targetTopics, subVars, offsetVars, leaderCall, callVars>>

\* The fetch in flight fails: every caller that shares it is rejected.
RefreshFails ==
    /\ inflight.active
    /\ inflight' = NoFetch
    /\ tasks' = [k \in TaskIds |->
                    IF tasks[k].pc = "awaitRefresh"
                    THEN [tasks[k] EXCEPT !.pc = "rejected"]
                    ELSE tasks[k]]
    /\ UNCHANGED <<targetTopics, metadata, completedRefreshes, subVars, offsetVars, leaderCall, callVars>>

\* The caller continues after `await this.refreshMetadata()`: the call returns,
\* or fails with the refresh's error.
AddTargetTopicsReturns ==
    \E k \in TaskIds :
        /\ tasks[k].pc \in {"resolved", "rejected"}
        /\ tasks' = [tasks EXCEPT ![k].pc =
                        IF tasks[k].pc = "resolved" THEN "returned" ELSE "failed"]
        /\ UNCHANGED <<targetTopics, metadata, inflight, completedRefreshes,
                       subVars, offsetVars, leaderCall, callVars>>

-----------------------------------------------------------------------------
(***************************************************************************)
(* Cluster.metadata, findBroker, findGroupCoordinator and                  *)
(* findGroupCoordinatorMetadata: one call at a time, against a pool and    *)
(* brokers that may answer or fail in any way. An action is the code that  *)
(* runs when an awaited pool or broker operation settles, up to the next   *)
(* await.                                                                  *)
(***************************************************************************)

\* An error, by the fields the code inspects.
Error(name, type, code) == [name |-> name, type |-> type, code |-> code]
NoErr == Error("none", "none", "none")
BrokerNotFound == Error("KafkaJSBrokerNotFound", "none", "none")
LockTimeout == Error("KafkaJSLockTimeout", "none", "none")
ConnectionRefused == Error("KafkaJSConnectionError", "none", "ECONNREFUSED")
BrokerNotConnected == Error("KafkaJSBrokerNotConnected", "none", "none")
RequestTimeout == Error("KafkaJSRequestTimeoutError", "none", "none")
LeaderNotAvailable == Error("KafkaJSProtocolError", "LEADER_NOT_AVAILABLE", "none")
CoordinatorNotAvailable ==
    Error("KafkaJSProtocolError", "GROUP_COORDINATOR_NOT_AVAILABLE", "none")
GroupCoordinatorNotFound == Error("KafkaJSGroupCoordinatorNotFound", "none", "none")
MetadataNotLoaded == Error("KafkaJSMetadataNotLoaded", "none", "none")
\* reading a property of null or undefined
TypeError == Error("TypeError", "none", "none")

\* What the collaborators may answer; NoErr stands for success.
PoolFindBrokerErrors == {BrokerNotFound, LockTimeout, ConnectionRefused, RequestTimeout}
RefreshErrors == {LeaderNotAvailable, ConnectionRefused, RequestTimeout}
WithBrokerErrors == {BrokerNotConnected}
BrokerMetadataErrors == {LeaderNotAvailable, RequestTimeout}
Answer(kind, e) == [kind |-> kind, error |-> e]
CoordinatorAnswers ==
    {Answer("metadata", NoErr), Answer("empty", NoErr)}
        \cup {Answer("error", e) :
                 e \in {CoordinatorNotAvailable, ConnectionRefused, RequestTimeout}}

\* What brokerPool.findBroker settles with: a broker, no broker, or an error.
FindBrokerAnswers ==
    {[error |-> NoErr, broker |-> b] : b \in {"broker", "undefined"}}
        \cup {[error |-> e, broker |-> "none"] : e \in PoolFindBrokerErrors}

\* What findControllerBroker reads from brokerPool.metadata: no snapshot, or
\* the snapshot's controllerId (null, undefined, or a node id, 0 included).
ControllerIds == Nodes \cup {"0"}
ControllerStates == {"noSnapshot", "null", "undefined"} \cup ControllerIds

Operations ==
    {"metadata", "findBroker", "findControllerBroker", "findGroupCoordinator",
     "findGroupCoordinatorMetadata"}

NoOperation == [op |-> "none", retryCount |-> 0, innerRetryCount |-> 0, attemptRefreshes |-> 0,
                controller |-> "noSnapshot", nodeId |-> "none", lookups |-> 0]
NothingHeld == [poolError |-> NoErr, caught |-> NoErr, source |-> "none"]
NoAttempt == [op |-> "none", source |-> "none", error |-> NoErr, disposition |-> "none",
              thrown |-> NoErr, refreshes |-> 0, retryCount |-> 0]
NoFindBroker == [called |-> FALSE, poolError |-> NoErr, broker |-> "none", refreshes |-> 0,
                 thrown |-> NoErr]
NoCoordinatorMetadata ==
    [called |-> FALSE, answer |-> Answer("none", NoErr), decision |-> "none",
     finished |-> FALSE, thrown |-> NoErr, queries |-> 0]
Pending == [status |-> "pending", error |-> NoErr]
Resolved == [status |-> "resolved", error |-> NoErr]
Rejected(e) == [status |-> "rejected", error |-> e]

\* The retrier: an attempt that throws is followed by another one until
\* `retries` is exceeded; then the last error is surfaced. bail(e) surfaces e
\* at once.
\* A retrier that compares with <= makes one attempt more.
retrierRetriesOnceMore(retryCount) == retryCount <= Retries

\* The retrier as the specification describes it: the attempts are numbered
\* from 0 and another one follows while fewer than `retries` retries were made.
retrierRetries(retryCount) == retryCount < Retries

\* The catch block of Cluster.metadata's attempt.
metadataCatch(e) == IF e.type = "LEADER_NOT_AVAILABLE" THEN "throw" ELSE "bail"

\* The promise of withBroker is returned from the try block without being
\* awaited: its rejection passes the catch block by and rejects the attempt.
metadataReturnedPromiseRejects(e) == "throw"

\* findControllerBroker's guard with the controllerId test left out
controllerMissingSnapshotOnly(controller) == controller = "noSnapshot"

\* findControllerBroker's guard: !metadata || metadata.controllerId == null
controllerMissing(controller) == controller \in {"noSnapshot", "null", "undefined"}

\* findControllerBroker after findBroker has resolved: `if (!broker) throw`.
controllerResult(broker) ==
    IF broker = "undefined" THEN Rejected(BrokerNotFound) ELSE Resolved

\* The condition of Cluster.findBroker's catch block.
findBrokerRefreshes(e) ==
    \/ e.name = "KafkaJSBrokerNotFound"
    \/ e.name = "KafkaJSLockTimeout"
    \/ e.code = "ECONNREFUSED"

\* The catch block of findGroupCoordinator's attempt.
coordinatorCatch(e) ==
    IF e.name = "KafkaJSBrokerNotFound" \/ e.type = "GROUP_COORDINATOR_NOT_AVAILABLE"
    THEN "refreshAndThrow"
    ELSE IF e.code = "ECONNREFUSED"
    THEN "throw"
    ELSE "bail"

\* The catch block of findGroupCoordinatorMetadata's attempt.
coordinatorMetadataCatch(e) ==
    IF e.type = "GROUP_COORDINATOR_NOT_AVAILABLE" THEN "throw" ELSE "bail"

\* One attempt of findGroupCoordinatorMetadata on the broker's answer. The
\* logger.debug call of the try block reads brokerMetadata.host and
\* brokerMetadata.coordinator.nodeId: on an empty answer that throws a
\* TypeError, which the catch block receives.
coordinatorMetadataAttempt(answer) ==
    IF answer.kind = "metadata"
    THEN [decision |-> "return", error |-> NoErr]
    ELSE LET e == IF answer.kind = "empty" THEN TypeError ELSE answer.error
         IN  [decision |-> coordinatorMetadataCatch(e), error |-> e]

\* After withBroker: `if (brokerMetadata) return brokerMetadata`, else throw.
coordinatorMetadataResult(answer) ==
    IF answer.kind = "metadata" THEN NoErr ELSE GroupCoordinatorNotFound

AttemptStart(op) ==
    IF op = "metadata" THEN "metadata.refreshIfNecessary" ELSE "coordinatorMetadata.withBroker"

\* An attempt of this.retrier ends with an error: the retrier's next move.
AttemptEnds(source, e, disposition, thrown) ==
    /\ lastAttempt' = [op |-> call.op, source |-> source, error |-> e,
                       disposition |-> disposition, thrown |-> thrown,
                       refreshes |-> call.attemptRefreshes, retryCount |-> call.retryCount]
    /\ IF disposition = "throw" /\ retrierRetries(call.retryCount)
       THEN /\ pc' = AttemptStart(call.op)
            /\ call' = [call EXCEPT !.retryCount = @ + 1, !.innerRetryCount = 0,
                                    !.attemptRefreshes = 0]
            /\ outcome' = outcome
       ELSE /\ pc' = "done"
            /\ call' = call
            /\ outcome' = Rejected(thrown)

\* The catch block of findGroupCoordinator's attempt, up to its await.
CoordinatorCatches(source, e) ==
    IF coordinatorCatch(e) = "refreshAndThrow"
    THEN /\ pc' = "coordinator.refresh"
         /\ held' = [held EXCEPT !.caught = e, !.source = source]
         /\ call' = [call EXCEPT !.attemptRefreshes = @ + 1]
         /\ UNCHANGED <<lastAttempt, outcome>>
    ELSE /\ AttemptEnds(source, e, coordinatorCatch(e), e)
         /\ held' = held

\* A call begins and runs up to its first await. findControllerBroker throws
\* before any await when its guard finds no controller.
StartCall ==
    \E op \in Operations, controller \in ControllerStates, nodeId \in Nodes :
        /\ pc \in {"idle", "done"}
        /\ op = "findControllerBroker" \/ controller = "noSnapshot"
        /\ op = "findBroker" \/ nodeId = "1"
        /\ held' = NothingHeld
        /\ lastAttempt' = NoAttempt
        /\ lastFindBroker' = NoFindBroker
        /\ lastCoordinatorMetadata' = NoCoordinatorMetadata
        /\ IF op = "findControllerBroker"
           THEN IF controllerMissing(controller)
                THEN /\ call' = [NoOperation EXCEPT !.op = op, !.controller = controller]
                     /\ pc' = "done"
                     /\ outcome' = Rejected(MetadataNotLoaded)
                ELSE /\ call' = [NoOperation EXCEPT !.op = op, !.controller = controller,
                                                    !.nodeId = controller, !.lookups = 1]
                     /\ pc' = "findBroker.find"
                     /\ outcome' = Pending
           ELSE IF op = "findBroker"
           THEN /\ call' = [NoOperation EXCEPT !.op = op, !.nodeId = nodeId, !.lookups = 1]
                /\ pc' = "findBroker.find"
                /\ outcome' = Pending
           ELSE /\ call' = [NoOperation EXCEPT !.op = op]
                /\ pc' = AttemptStart(op)
                /\ outcome' = Pending
        /\ UNCHANGED <<subVars, offsetVars, leaderVars, topicVars>>

\* Cluster.metadata: brokerPool.refreshMetadataIfNecessary(topics) settles.
MetadataRefreshIfNecessary ==
    /\ pc = "metadata.refreshIfNecessary"
    /\ \E r \in {NoErr} \cup RefreshErrors :
           IF r = NoErr
           THEN pc' = "metadata.withBroker" /\ UNCHANGED <<call, lastAttempt, outcome>>
           ELSE AttemptEnds("refreshMetadataIfNecessary", r, metadataCatch(r), r)
    /\ UNCHANGED <<held, lastFindBroker, lastCoordinatorMetadata, subVars, offsetVars, leaderVars, topicVars>>

\* Cluster.metadata: the promise of withBroker settles with the outcome of
\* the broker's metadata call made in its callback.
MetadataWithBroker ==
    /\ pc = "metadata.withBroker"
    /\ \E r \in {NoErr} \cup BrokerMetadataErrors :
           IF r = NoErr
           THEN pc' = "done" /\ outcome' = Resolved /\ UNCHANGED <<call, lastAttempt>>
           ELSE AttemptEnds("broker.metadata", r, metadataReturnedPromiseRejects(r), r)
    /\ UNCHANGED <<held, lastFindBroker, lastCoordinatorMetadata, subVars, offsetVars, leaderVars, topicVars>>

\* Cluster.findBroker returns or throws to its caller: the caller of the
\* Cluster, findControllerBroker, or the attempt of findGroupCoordinator.
FindBrokerEnds(e, broker) ==
    IF call.op = "findGroupCoordinator" /\ e # NoErr
    THEN CoordinatorCatches("findBroker", e)
    ELSE /\ pc' = "done"
         /\ outcome' = IF e # NoErr THEN Rejected(e)
                       ELSE IF call.op = "findControllerBroker" THEN controllerResult(broker)
                       ELSE Resolved
         /\ UNCHANGED <<call, held, lastAttempt>>

\* Cluster.findBroker: brokerPool.findBroker settles.
FindBrokerFind ==
    /\ pc = "findBroker.find"
    /\ \E answer \in FindBrokerAnswers :
           LET r == answer.error
           IN  IF r # NoErr /\ findBrokerRefreshes(r)
               THEN /\ pc' = "findBroker.refresh"
                    /\ held' = [held EXCEPT !.poolError = r]
                    /\ call' = [call EXCEPT !.attemptRefreshes = @ + 1]
                    /\ UNCHANGED <<lastAttempt, lastFindBroker, outcome>>
               ELSE /\ FindBrokerEnds(r, answer.broker)
                    /\ lastFindBroker' = [called |-> TRUE, poolError |-> r,
                                          broker |-> answer.broker, refreshes |-> 0,
                                          thrown |-> r]
    /\ UNCHANGED <<lastCoordinatorMetadata, subVars, offsetVars, leaderVars, topicVars>>

\* Cluster.findBroker: the refresh awaited in its catch block settles; the
\* `throw e` after it runs only if the refresh did not throw.
FindBrokerRefresh ==
    /\ pc = "findBroker.refresh"
    /\ \E r \in {NoErr} \cup RefreshErrors :
           LET thrown == IF r = NoErr THEN held.poolError ELSE r
           IN  /\ FindBrokerEnds(thrown, "none")
               /\ lastFindBroker' = [called |-> TRUE, poolError |-> held.poolError,
                                     broker |-> "none", refreshes |-> 1, thrown |-> thrown]
    /\ UNCHANGED <<lastCoordinatorMetadata, subVars, offsetVars, leaderVars, topicVars>>

\* findGroupCoordinatorMetadata returns or throws to its caller.
CoordinatorMetadataEnds(e) ==
    IF call.op = "findGroupCoordinatorMetadata"
    THEN /\ pc' = "done"
         /\ outcome' = IF e = NoErr THEN Resolved ELSE Rejected(e)
         /\ UNCHANGED <<call, held, lastAttempt>>
    ELSE IF e = NoErr
    THEN /\ pc' = "findBroker.find"
         /\ call' = [call EXCEPT !.nodeId = "coordinator", !.lookups = @ + 1]
         /\ UNCHANGED <<held, lastAttempt, outcome>>
    ELSE CoordinatorCatches("findGroupCoordinatorMetadata", e)

\* findGroupCoordinatorMetadata: withBroker picks a connected broker, or fails.
CoordinatorMetadataWithBroker ==
    /\ pc = "coordinatorMetadata.withBroker"
    /\ \E r \in {NoErr} \cup WithBrokerErrors :
           IF r = NoErr
           THEN /\ pc' = "coordinatorMetadata.query"
                /\ lastCoordinatorMetadata' = [NoCoordinatorMetadata EXCEPT !.called = TRUE]
                /\ UNCHANGED <<call, held, lastAttempt, outcome>>
           ELSE /\ CoordinatorMetadataEnds(r)
                /\ lastCoordinatorMetadata' =
                       [NoCoordinatorMetadata EXCEPT !.called = TRUE, !.finished = TRUE,
                                                     !.thrown = r]
    /\ UNCHANGED <<lastFindBroker, subVars, offsetVars, leaderVars, topicVars>>

\* findGroupCoordinatorMetadata: broker.findGroupCoordinator settles inside
\* the inner retrier.
CoordinatorMetadataQuery ==
    /\ pc = "coordinatorMetadata.query"
    /\ \E answer \in CoordinatorAnswers :
           LET a == coordinatorMetadataAttempt(answer)
               seen == [lastCoordinatorMetadata EXCEPT
                           !.answer = answer, !.decision = a.decision, !.queries = @ + 1]
           IN  IF a.decision = "throw" /\ retrierRetries(call.innerRetryCount)
               THEN /\ pc' = "coordinatorMetadata.query"
                    /\ call' = [call EXCEPT !.innerRetryCount = @ + 1]
                    /\ lastCoordinatorMetadata' = seen
                    /\ UNCHANGED <<held, lastAttempt, outcome>>
               ELSE LET e == IF a.decision = "return"
                             THEN coordinatorMetadataResult(answer)
                             ELSE a.error
                    IN  /\ CoordinatorMetadataEnds(e)
                        /\ lastCoordinatorMetadata' =
                               [seen EXCEPT !.finished = TRUE, !.thrown = e]
    /\ UNCHANGED <<lastFindBroker, subVars, offsetVars, leaderVars, topicVars>>

\* findGroupCoordinator: the refresh awaited in its catch block settles; the
\* `throw e` after it runs only if the refresh did not throw.
CoordinatorRefresh ==
    /\ pc = "coordinator.refresh"
    /\ \E r \in {NoErr} \cup RefreshErrors :
           AttemptEnds(held.source, held.caught, "throw", IF r = NoErr THEN held.caught ELSE r)
    /\ UNCHANGED <<held, lastFindBroker, lastCoordinatorMetadata, subVars, offsetVars, leaderVars, topicVars>>

-----------------------------------------------------------------------------
(***************************************************************************)
(* Cluster.fetchTopicsOffset: the synchronous indexing of the requested    *)
(* partitions per leader, then one request per leader running on its own   *)
(* (findBroker, then broker.listOffsets), joined by Promise.all. The       *)
(* snapshot is read only while indexing. Objects are modelled as functions *)
(* on their keys, except where the order of their keys reaches the result. *)
(***************************************************************************)

EARLIEST_OFFSET == -2
LATEST_OFFSET == -1

defaultOffset(fromBeginning) == IF fromBeginning THEN EARLIEST_OFFSET ELSE LATEST_OFFSET

\* The entries of the argument: { topic, partitions: [{ partition }], fromBeginning },
\* with partition numbers as the documented input gives them.
FetchPartitionIds == {0, 1}
FetchPartitions == {[partition |-> [type |-> "number", digits |-> n]] : n \in FetchPartitionIds}
FetchPartitionLists == UNION {[1..k -> FetchPartitions] : k \in 0..MaxFetchPartitions}
FetchEntries ==
    {[topic |-> t, partitions |-> ps, fromBeginning |-> fb] :
        t \in Topics, ps \in FetchPartitionLists, fb \in BOOLEAN}
FetchInputs ==
    {<<>>} \cup {<<e>> : e \in FetchEntries}
        \cup {<<e1, e2>> : e1 \in FetchEntries, e2 \in FetchEntries}

\* The snapshots a call may find: none; every partition with a leader; a
\* partition without metadata; a partition without a leader.
FetchSnapshot(a, b) ==
    [loaded |-> TRUE, hasTopicMetadata |-> TRUE,
     topicMetadata |-> <<[topic |-> "a", partitionMetadata |-> a],
                         [topic |-> "b", partitionMetadata |-> b]>>]
FetchSnapshots ==
    {NoMetadata,
     FetchSnapshot(<<[partitionId |-> 0, leader |-> "1"], [partitionId |-> 1, leader |-> "2"]>>,
                   <<[partitionId |-> 0, leader |-> "2"], [partitionId |-> 1, leader |-> "2"]>>),
     FetchSnapshot(<<[partitionId |-> 0, leader |-> "1"]>>,
                   <<[partitionId |-> 0, leader |-> "1"], [partitionId |-> 1, leader |-> "2"]>>),
     FetchSnapshot(<<[partitionId |-> 0, leader |-> "1"], [partitionId |-> 1, leader |-> NullLeader]>>,
                   <<[partitionId |-> 0, leader |-> "1"], [partitionId |-> 1, leader |-> "1"]>>)}

\* Array.prototype.includes on a list of numbers.
includes(list, value) == value.type = "number" /\ value.digits \in Range(list)

NoIndex == [error |-> NoErr, topicConfigurations |-> EmptyObject,
            partitionsPerBroker |-> EmptyObject]

\* One iteration of the indexing loop: findLeaderForPartitions (which may
\* throw), the assignment to topicConfigurations[topic], and for each leader
\* the assignment to partitionsPerBroker[nodeId][topic].
indexTopic(md, index, topicData) ==
    LET topic == topicData.topic
        partitions == topicData.partitions
        partitionsPerLeader ==
            findLeaderForPartitions(md, topic,
                                    [i \in 1..Len(partitions) |-> partitions[i].partition])
    IN  IF partitionsPerLeader.error # NoError
        THEN [index EXCEPT !.error = Error(partitionsPerLeader.error, "none", "none")]
        ELSE [error |-> NoErr,
              topicConfigurations |->
                  [t \in DOMAIN index.topicConfigurations \cup {topic} |->
                      IF t = topic
                      THEN [fromBeginning |-> topicData.fromBeginning]
                      ELSE index.topicConfigurations[t]],
              partitionsPerBroker |->
                  [nodeId \in DOMAIN index.partitionsPerBroker
                                  \cup DOMAIN partitionsPerLeader.result |->
                      LET current == IF nodeId \in DOMAIN index.partitionsPerBroker
                                     THEN index.partitionsPerBroker[nodeId]
                                     ELSE EmptyObject
                          Led(p) == includes(partitionsPerLeader.result[nodeId], p.partition)
                      IN  IF nodeId \in DOMAIN partitionsPerLeader.result
                          THEN [t \in DOMAIN current \cup {topic} |->
                                   IF t = topic
                                   THEN SelectSeq(partitions, Led)
                                   ELSE current[t]]
                          ELSE current]]

\* for (let topicData of topics): a throw ends the loop and the call.
RECURSIVE indexTopics(_, _, _)
indexTopics(md, index, topics) ==
    IF topics = <<>> \/ index.error # NoErr
    THEN index
    ELSE indexTopics(md, indexTopic(md, index, Head(topics)), Tail(topics))

addDefaultOffset(topicConfigurations, topic, partition) ==
    [partition |-> partition.partition,
     timestamp |-> defaultOffset(topicConfigurations[topic].fromBeginning)]

\* The `topics` of the listOffsets request to one leader.
listOffsetsTopics(index, nodeId) ==
    LET partitions == index.partitionsPerBroker[nodeId]
    IN  [topic \in DOMAIN partitions |->
            [i \in 1..Len(partitions[topic]) |->
                addDefaultOffset(index.topicConfigurations, topic, partitions[topic][i])]]

\* Object keys that are node ids, and topics, in the order used for lists.
NodeList == <<"1", "2">>
TopicList == <<"a", "b">>

\* Broker.listOffsets: the broker answers the partitions it was asked for.
Offsets == {"3", "8"}
listOffsetsResponses(topics, offset) ==
    LET Asked(t) == t \in DOMAIN topics
        asked == SelectSeq(TopicList, Asked)
    IN  [i \in 1..Len(asked) |->
            [topic |-> asked[i],
             partitions |-> [j \in 1..Len(topics[asked[i]]) |->
                                [partition |-> topics[asked[i]][j].partition,
                                 offset |-> offset,
                                 errorCode |-> 0]]]]
OffsetFindBrokerErrors == {BrokerNotFound}
ListOffsetsErrors == {RequestTimeout}

\* mergeTopics that never merges: every response entry becomes a key
mergeTopicsAppends(obj, entry) ==
    Append(obj, [topic |-> entry.topic, partitions |-> entry.partitions])

\* mergeTopics: { ...obj, [topic]: [...(obj[topic] || []), ...partitions] },
\* the object being the list of its keys (in insertion order) with their values.
mergeTopics(obj, entry) ==
    IF \E i \in 1..Len(obj) : obj[i].topic = entry.topic
    THEN [i \in 1..Len(obj) |->
             IF obj[i].topic = entry.topic
             THEN [topic |-> entry.topic, partitions |-> obj[i].partitions \o entry.partitions]
             ELSE obj[i]]
    ELSE Append(obj, [topic |-> entry.topic, partitions |-> entry.partitions])

RECURSIVE reduceMergeTopics(_, _)
reduceMergeTopics(obj, entries) ==
    IF entries = <<>>
    THEN obj
    ELSE reduceMergeTopics(mergeTopics(obj, Head(entries)), Tail(entries))

RECURSIVE flatten(_)
flatten(lists) == IF lists = <<>> THEN <<>> ELSE Head(lists) \o flatten(Tail(lists))

\* The responses of the requests, in the order of keys(partitionsPerBroker).
responsesOf(requests) ==
    LET Requested(n) == n \in DOMAIN requests
        nodes == SelectSeq(NodeList, Requested)
    IN  [i \in 1..Len(nodes) |-> requests[nodes[i]].responses]

\* What fetchTopicsOffset returns once Promise.all has resolved.
fetchResult(requests) ==
    LET partitionsPerTopic == reduceMergeTopics(<<>>, flatten(responsesOf(requests)))
    IN  [i \in 1..Len(partitionsPerTopic) |->
            [topic |-> partitionsPerTopic[i].topic,
             partitions |->
                 [j \in 1..Len(partitionsPerTopic[i].partitions) |->
                     [partition |-> partitionsPerTopic[i].partitions[j].partition,
                      offset |-> partitionsPerTopic[i].partitions[j].offset]]]]

NoOffsetFetch == [status |-> "none", input |-> <<>>, error |-> NoErr, index |-> NoIndex,
                  requests |-> EmptyObject, result |-> <<>>]
NewRequest == [stage |-> "findBroker", topics |-> EmptyObject, responses |-> <<>>,
               error |-> NoErr]

\* fetchTopicsOffset up to `await Promise.all(requests)`.
FetchTopicsOffset(topics) ==
    LET index == indexTopics(metadata, NoIndex, topics)
        requests == [nodeId \in DOMAIN index.partitionsPerBroker |-> NewRequest]
    IN  /\ offsetFetch.status = "none"
        /\ offsetFetch' =
               IF index.error # NoErr
               THEN [NoOffsetFetch EXCEPT !.status = "rejected", !.input = topics,
                                          !.error = index.error]
               ELSE [status |-> IF DOMAIN requests = {} THEN "resolved" ELSE "pending",
                     input |-> topics, error |-> NoErr, index |-> index,
                     requests |-> requests, result |-> <<>>]

FetchTopicsOffsetCall ==
    \E topics \in FetchInputs :
        /\ FetchTopicsOffset(topics)
        /\ UNCHANGED <<subVars, leaderVars, topicVars, callVars, committedOffsetsByGroup,
                       offsetCall>>

\* Promise.all: rejected by the first request that rejects, resolved when
\* every request has resolved.
promiseAll(fetch, requests, e) ==
    IF fetch.status # "pending"
    THEN [fetch EXCEPT !.requests = requests]
    ELSE IF e # NoErr
    THEN [fetch EXCEPT !.requests = requests, !.status = "rejected", !.error = e]
    ELSE IF \A n \in DOMAIN requests : requests[n].stage = "resolved"
    THEN [fetch EXCEPT !.requests = requests, !.status = "resolved",
                       !.result = fetchResult(requests)]
    ELSE [fetch EXCEPT !.requests = requests]

\* A request's `await this.findBroker({ nodeId })` settles; on success the
\* request goes on to call broker.listOffsets.
FetchFindBrokerSettles ==
    \E nodeId \in DOMAIN offsetFetch.requests, r \in {NoErr} \cup OffsetFindBrokerErrors :
        /\ offsetFetch.requests[nodeId].stage = "findBroker"
        /\ LET request ==
                   IF r = NoErr
                   THEN [offsetFetch.requests[nodeId] EXCEPT
                            !.stage = "listOffsets",
                            !.topics = listOffsetsTopics(offsetFetch.index, nodeId)]
                   ELSE [offsetFetch.requests[nodeId] EXCEPT !.stage = "rejected", !.error = r]
           IN  offsetFetch' =
                   promiseAll(offsetFetch, [offsetFetch.requests EXCEPT ![nodeId] = request], r)
        /\ UNCHANGED <<subVars, leaderVars, topicVars, callVars, committedOffsetsByGroup,
                       offsetCall>>

\* A request's `await broker.listOffsets(...)` settles.
FetchListOffsetsSettles ==
    \E nodeId \in DOMAIN offsetFetch.requests, r \in {NoErr} \cup ListOffsetsErrors,
       offset \in Offsets :
        /\ offsetFetch.requests[nodeId].stage = "listOffsets"
        /\ LET request ==
                   IF r = NoErr
                   THEN [offsetFetch.requests[nodeId] EXCEPT
                            !.stage = "resolved",
                            !.responses =
                                listOffsetsResponses(offsetFetch.requests[nodeId].topics, offset)]
                   ELSE [offsetFetch.requests[nodeId] EXCEPT !.stage = "rejected", !.error = r]
           IN  offsetFetch' =
                   promiseAll(offsetFetch, [offsetFetch.requests EXCEPT ![nodeId] = request], r)
        /\ UNCHANGED <<subVars, leaderVars, topicVars, callVars, committedOffsetsByGroup,
                       offsetCall>>

-----------------------------------------------------------------------------
(***************************************************************************)
(* Cluster.committedOffsets and Cluster.markOffsetAsCommitted              *)
(***************************************************************************)

Groups == {"A", "B"}
OffsetValues == {"1", "2"}

\* A partition as the caller passes it (string|number), and the property key
\* it becomes: the number 0 and the string "0" name the same property.
PartitionArguments ==
    {[type |-> "number", digits |-> 0], [type |-> "number", digits |-> 1],
     [type |-> "string", digits |-> 0]}
propertyKey(partition) == <<"0", "1">>[partition.digits + 1]
PartitionKeys == {"0", "1"}

\* A group without an entry in the Map, and the object a first read creates.
NoGroup == [present |-> FALSE, topics |-> EmptyObject]
EmptyGroup == [present |-> TRUE, topics |-> EmptyObject]

\* committedOffsets({ groupId }): the Map after the call; the call returns
\* the object held for groupId.
committedOffsets(byGroup, groupId) ==
    IF ~byGroup[groupId].present
    THEN [byGroup EXCEPT ![groupId] = EmptyGroup]
    ELSE byGroup

\* markOffsetAsCommitted that replaces the topic's object by a new one
markOffsetAsCommittedFreshTopic(byGroup, groupId, topic, partition, offset) ==
    LET initialised == committedOffsets(byGroup, groupId)
        committed == initialised[groupId].topics
        key == propertyKey(partition)
    IN  [initialised EXCEPT ![groupId].topics =
            [t \in DOMAIN committed \cup {topic} |->
                IF t = topic THEN [k \in {key} |-> offset] ELSE committed[t]]]

markOffsetAsCommitted(byGroup, groupId, topic, partition, offset) ==
    LET initialised == committedOffsets(byGroup, groupId)
        committed == initialised[groupId].topics
        forTopic == IF topic \in DOMAIN committed THEN committed[topic] ELSE EmptyObject
        key == propertyKey(partition)
    IN  [initialised EXCEPT ![groupId].topics =
            [t \in DOMAIN committed \cup {topic} |->
                IF t = topic
                THEN [k \in DOMAIN forTopic \cup {key} |-> IF k = key THEN offset ELSE forTopic[k]]
                ELSE committed[t]]]

NoOffsetCall == [op |-> "none", groupId |-> "A", topic |-> "a", key |-> "0",
                 offset |-> "undefined", first |-> FALSE]

OffsetInit ==
    /\ offsetFetch = NoOffsetFetch
    /\ committedOffsetsByGroup = [g \in Groups |-> NoGroup]
    /\ offsetCall = NoOffsetCall

CommittedOffsetsCall ==
    \E groupId \in Groups :
        /\ committedOffsetsByGroup' = committedOffsets(committedOffsetsByGroup, groupId)
        /\ offsetCall' = [NoOffsetCall EXCEPT
                             !.op = "committedOffsets", !.groupId = groupId,
                             !.first = ~committedOffsetsByGroup[groupId].present]
        /\ UNCHANGED <<subVars, leaderVars, topicVars, callVars, offsetFetch>>

MarkOffsetAsCommittedCall ==
    \E groupId \in Groups, topic \in Topics, partition \in PartitionArguments,
       offset \in OffsetValues :
        /\ committedOffsetsByGroup' =
               markOffsetAsCommitted(committedOffsetsByGroup, groupId, topic, partition, offset)
        /\ offsetCall' = [op |-> "markOffsetAsCommitted", groupId |-> groupId, topic |-> topic,
                          key |-> propertyKey(partition), offset |-> offset,
                          first |-> ~committedOffsetsByGroup[groupId].present]
        /\ UNCHANGED <<subVars, leaderVars, topicVars, callVars, offsetFetch>>

-----------------------------------------------------------------------------
(***************************************************************************)
(* Initial states and specifications                                       *)
(***************************************************************************)

LeaderIdle ==
    /\ metadata = NoMetadata
    /\ leaderCall = NoLeaderCall

TopicIdle ==
    /\ targetTopics = <<>>
    /\ inflight = NoFetch
    /\ tasks = [k \in TaskIds |-> IdleTask]
    /\ completedRefreshes = {}

CallIdle ==
    /\ pc = "idle"
    /\ call = NoOperation
    /\ held = NothingHeld
    /\ lastAttempt = NoAttempt
    /\ lastFindBroker = NoFindBroker
    /\ lastCoordinatorMetadata = NoCoordinatorMetadata
    /\ outcome = Pending

\* SubscriptionState alone: any sequence of pause and resume calls.
InitSubscription == SubInit /\ LeaderIdle /\ TopicIdle /\ CallIdle /\ OffsetInit
NextSubscription == PauseCall \/ ResumeCall
SpecSubscription == InitSubscription /\ [][NextSubscription]_vars

\* findLeaderForPartitions on any snapshot and any list of partition ids.
InitLeader == SubInit /\ LeaderInit /\ TopicIdle /\ CallIdle /\ OffsetInit
NextLeader == FindLeaderForPartitionsCall
SpecLeader == InitLeader /\ [][NextLeader]_vars

\* Concurrent callers of addTargetTopic / addMultipleTargetTopics.
InitTargetTopics == SubInit /\ LeaderIdle /\ TopicIdle /\ CallIdle /\ OffsetInit
NextTargetTopics ==
    \/ AddTargetTopicCall
    \/ AddMultipleTargetTopicsCall
    \/ RefreshMetadataCall
    \/ RefreshCompletes
    \/ RefreshFails
    \/ AddTargetTopicsReturns
SpecTargetTopics == InitTargetTopics /\ [][NextTargetTopics]_vars

\* One call at a time of metadata, findBroker, findGroupCoordinator or
\* findGroupCoordinatorMetadata.
Init == SubInit /\ LeaderIdle /\ TopicIdle /\ CallIdle /\ OffsetInit
Next ==
    \/ StartCall
    \/ MetadataRefreshIfNecessary
    \/ MetadataWithBroker
    \/ FindBrokerFind
    \/ FindBrokerRefresh
    \/ CoordinatorMetadataWithBroker
    \/ CoordinatorMetadataQuery
    \/ CoordinatorRefresh
Spec == Init /\ [][Next]_vars

\* fetchTopicsOffset on any of the snapshots, its requests settling in any order.
InitFetch ==
    /\ SubInit /\ TopicIdle /\ CallIdle /\ OffsetInit
    /\ metadata \in FetchSnapshots
    /\ leaderCall = NoLeaderCall
NextFetch ==
    \/ FetchTopicsOffsetCall
    \/ FetchFindBrokerSettles
    \/ FetchListOffsetsSettles
SpecFetch == InitFetch /\ [][NextFetch]_vars

\* Any sequence of committedOffsets and markOffsetAsCommitted calls.
InitOffsets == SubInit /\ LeaderIdle /\ TopicIdle /\ CallIdle /\ OffsetInit
NextOffsets == CommittedOffsetsCall \/ MarkOffsetAsCommittedCall
SpecOffsets == InitOffsets /\ [][NextOffsets]_vars

-----------------------------------------------------------------------------
(***************************************************************************)
(* Properties of SubscriptionState                                         *)
(***************************************************************************)

\* C6: resume with an entry that names specific partitions (any array, the
\* empty one included) of a topic whose state is all=true fails with a
\* NonRetriable error, and the topic is still entirely paused afterwards:
\* isPaused is true for each of its partitions and paused() reports all=true.
C6_ResumeOfPausedTopicFails ==
    \A t \in Topics :
        (/\ subCall.op = "resume"
         /\ t \in subCall.named
         /\ subCall.before[t].all = "true")
            => /\ subCall.error = NonRetriable
               /\ \A p \in Partitions : isPaused(pausedPartitionsByTopic, t, p)
               /\ \E r \in paused(pausedPartitionsByTopic) :
                      r.topic = t /\ r.all = "true"

\* A resume of the empty partition list of an entirely paused topic has run.
C6_Witness ==
    \E t \in Topics :
        /\ subCall.op = "resume"
        /\ subCall.entries = 1
        /\ t \in subCall.namedEmpty
        /\ subCall.before[t].all = "true"
        /\ subCall.error = NonRetriable

\* C7: after any sequence of pause and resume calls, failing ones included,
\* every topic entry whose all is true has an empty set of paused partitions.
C7_AllImpliesNoPartitions ==
    \A t \in Topics :
        (pausedPartitionsByTopic[t].present /\ pausedPartitionsByTopic[t].all = "true")
            => pausedPartitionsByTopic[t].partitions = {}

\* A topic is entirely paused, and the last call is a resume that failed on
\* it after an earlier entry of the same call had changed the state.
C7_Witness ==
    \E t \in Topics :
        /\ pausedPartitionsByTopic[t].all = "true"
        /\ subCall.op = "resume"
        /\ subCall.error = NonRetriable
        /\ subCall.before # pausedPartitionsByTopic

\* C8: for a topic t that is not entirely paused and a list P, pause([{t,P}])
\* followed by resume([{t,P}]) leaves no partition of P paused, leaves every
\* partition of t paused before and not in P paused, and paused() has an entry
\* for t with all=false; from a fresh state that entry has no partitions.
C8_PauseResumeRoundTrip ==
    (roundTrip.stage = "resumed" /\ roundTrip.before.all # "true") =>
        LET t == roundTrip.topic
            P == Range(roundTrip.items)
        IN  /\ subCall.error = NoError
            /\ \A p \in P : ~isPaused(pausedPartitionsByTopic, t, p)
            /\ \A p \in Partitions \ P :
                   (roundTrip.before.present /\ p \in roundTrip.before.partitions)
                       => isPaused(pausedPartitionsByTopic, t, p)
            /\ \E r \in paused(pausedPartitionsByTopic) :
                   /\ r.topic = t
                   /\ r.all = "false"
                   /\ roundTrip.fresh => r.partitions = {}

\* A round trip over a non-empty list has run on a topic that had another
\* partition paused before.
C8_Witness ==
    /\ roundTrip.stage = "resumed"
    /\ roundTrip.before.all # "true"
    /\ roundTrip.items # <<>>
    /\ roundTrip.before.partitions \ Range(roundTrip.items) # {}

\* A round trip has run from the state the constructor leaves.
C8_WitnessFresh ==
    /\ roundTrip.stage = "resumed"
    /\ roundTrip.fresh
    /\ roundTrip.items # <<>>

-----------------------------------------------------------------------------
(***************************************************************************)
(* Properties of findLeaderForPartitions                                   *)
(***************************************************************************)

Count(x, list) == Cardinality({i \in 1..Len(list) : list[i] = x})
SameMultiset(l1, l2) == \A x \in Range(l1) \cup Range(l2) : Count(x, l1) = Count(x, l2)
PermutationsOf(list) ==
    {[i \in 1..Len(list) |-> list[f[i]]] :
        f \in {g \in [1..Len(list) -> 1..Len(list)] :
                  \A i, j \in 1..Len(list) : g[i] = g[j] => i = j}}
ListOf(object, n) == IF n \in DOMAIN object THEN object[n] ELSE <<>>

\* The leaders the snapshot records for a partition of a topic, read off the
\* snapshot itself: empty when the partition has no metadata.
LeadersInSnapshot(topic, partitionId) ==
    {p.leader :
        p \in {q \in UNION {Range(t.partitionMetadata) :
                               t \in {u \in Range(metadata.topicMetadata) : u.topic = topic}} :
                  q.partitionId = partitionId}}

\* The call was made on a snapshot in which every requested partition that
\* has metadata also has a leader.
RequestedPartitionsHaveLeaders ==
    /\ leaderCall.called
    /\ metadata.loaded /\ metadata.hasTopicMetadata
    /\ \A i \in 1..Len(leaderCall.partitions) :
           NullLeader \notin
               LeadersInSnapshot(leaderCall.topic, leaderCall.partitions[i].digits)

\* C10: on a snapshot in which every requested partition that has metadata
\* has a leader, findLeaderForPartitions(topic, P) lists each partition of P
\* that has metadata under exactly its leader's nodeId, once per occurrence
\* in P, lists partitions without metadata nowhere, gives no nodeId an empty
\* list, and gives the same per-leader multisets for every ordering of P.
C10_LeaderGrouping ==
    RequestedPartitionsHaveLeaders =>
        /\ leaderCall.error = NoError
        /\ DOMAIN leaderCall.result \subseteq Nodes
        /\ \A n \in Nodes : \A id \in 0..3 :
               Count(id, ListOf(leaderCall.result, n)) =
                   IF n \in LeadersInSnapshot(leaderCall.topic, id)
                   THEN Cardinality({i \in 1..Len(leaderCall.partitions) :
                                        leaderCall.partitions[i].digits = id})
                   ELSE 0
        /\ \A n \in DOMAIN leaderCall.result : leaderCall.result[n] # <<>>
        /\ \A Q \in PermutationsOf(leaderCall.partitions) :
               LET r == findLeaderForPartitions(metadata, leaderCall.topic, Q)
               IN  /\ r.error = NoError
                   /\ DOMAIN r.result = DOMAIN leaderCall.result
                   /\ \A n \in DOMAIN r.result :
                          SameMultiset(r.result[n], leaderCall.result[n])

\* A call has grouped three ids, one of them without metadata and one given
\* as a string, under two leaders.
C10_Witness ==
    /\ RequestedPartitionsHaveLeaders
    /\ Len(leaderCall.partitions) = 3
    /\ DOMAIN leaderCall.result = Nodes
    /\ \E n \in Nodes : Len(leaderCall.result[n]) = 1
    /\ \E i \in 1..3 : LeadersInSnapshot(leaderCall.topic, leaderCall.partitions[i].digits) = {}
    /\ \E i \in 1..3 : leaderCall.partitions[i].type = "string"

\* C11: findLeaderForPartitions(topic, P) fails with TopicMetadataNotLoaded
\* when the snapshot or its topicMetadata is absent; returns an empty mapping
\* when the snapshot has topicMetadata without the topic; and otherwise fails
\* with the invalid-partition-metadata error exactly when some partition of
\* P has metadata whose leader is null or undefined, so that a leaderless
\* partition outside P causes no failure.
C11_LeaderLookupFailures ==
    leaderCall.called =>
        IF ~metadata.loaded \/ ~metadata.hasTopicMetadata
        THEN leaderCall.error = TopicMetadataNotLoaded
        ELSE IF \A t \in Range(metadata.topicMetadata) : t.topic # leaderCall.topic
        THEN leaderCall.error = NoError /\ leaderCall.result = EmptyObject
        ELSE leaderCall.error =
                 IF \E i \in 1..Len(leaderCall.partitions) :
                        NullLeader \in LeadersInSnapshot(leaderCall.topic,
                                                        leaderCall.partitions[i].digits)
                 THEN InvalidPartitionMetadata
                 ELSE NoError

\* A call has succeeded with a non-empty mapping on a snapshot in which a
\* partition that was not requested has no leader.
C11_Witness ==
    /\ leaderCall.called
    /\ leaderCall.error = NoError
    /\ leaderCall.result # EmptyObject
    /\ \E id \in KnownPartitionIds :
           /\ NullLeader \in LeadersInSnapshot(leaderCall.topic, id)
           /\ \A i \in 1..Len(leaderCall.partitions) : leaderCall.partitions[i].digits # id

\* A call has failed on a requested partition without a leader, after a
\* requested partition that has one.
C11_WitnessLeaderless ==
    /\ leaderCall.called
    /\ leaderCall.error = InvalidPartitionMetadata
    /\ Len(leaderCall.partitions) >= 2
    /\ NullLeader \notin LeadersInSnapshot(leaderCall.topic, leaderCall.partitions[1].digits)
    /\ LeadersInSnapshot(leaderCall.topic, leaderCall.partitions[1].digits) # {}

\* A call has been made while no snapshot was present.
C11_WitnessNotLoaded ==
    /\ leaderCall.called
    /\ ~metadata.loaded
    /\ leaderCall.error = TopicMetadataNotLoaded

-----------------------------------------------------------------------------
(***************************************************************************)
(* Properties of addTargetTopic / addMultipleTargetTopics                  *)
(***************************************************************************)

\* C1: whenever a call of addTargetTopic / addMultipleTargetTopics has
\* returned successfully, a metadata refresh whose requested topic list
\* contained every topic passed to the call has completed, in every
\* interleaving of the callers.
C1_ReturnsAfterRefreshOfItsTopics ==
    \A k \in TaskIds :
        (tasks[k].pc = "returned" /\ tasks[k].topics # <<>>) =>
            \E requested \in completedRefreshes :
                Range(tasks[k].topics) \subseteq Range(requested)

\* C9: addTargetTopic(t) calls refreshMetadata exactly once when t was not in
\* the target set, not at all when t was in it and a snapshot is present, and
\* exactly once when no snapshot is present, whatever t.
C9_RefreshesPerAddTargetTopic ==
    \A k \in TaskIds :
        tasks[k].api = "addTargetTopic" =>
            tasks[k].refreshes =
                IF tasks[k].targetedBefore = {} THEN 1
                ELSE IF tasks[k].hadSnapshot THEN 0
                ELSE 1

\* One caller has added a topic that was targeted and has asked for no
\* refresh, while another has added a new topic and waits for its refresh.
C9_Witness ==
    \E k, j \in TaskIds :
        /\ tasks[k].api = "addTargetTopic" /\ tasks[j].api = "addTargetTopic"
        /\ tasks[k].targetedBefore # {} /\ tasks[k].hadSnapshot /\ tasks[k].refreshes = 0
        /\ tasks[j].targetedBefore = {} /\ tasks[j].hadSnapshot /\ tasks[j].pc = "awaitRefresh"

\* A caller has added a topic that was targeted while no snapshot was present.
C9_WitnessNoSnapshot ==
    \E k \in TaskIds :
        /\ tasks[k].api = "addTargetTopic"
        /\ tasks[k].targetedBefore # {} /\ ~tasks[k].hadSnapshot /\ tasks[k].refreshes = 1

\* C1, for two calls for the same topics in flight: when a call has returned
\* without asking for a refresh while the fetch that another call started for
\* its topics is still in flight, a refresh that requested its topics has
\* completed all the same.
C1_ImmediateReturnAfterRefreshOfItsTopics ==
    \A k \in TaskIds :
        (/\ tasks[k].pc = "returned" /\ tasks[k].refreshes = 0 /\ tasks[k].topics # <<>>
         /\ inflight.active /\ Range(tasks[k].topics) \subseteq Range(inflight.topics)) =>
            \E requested \in completedRefreshes :
                Range(tasks[k].topics) \subseteq Range(requested)

-----------------------------------------------------------------------------
(***************************************************************************)
(* Properties of metadata, findBroker, findGroupCoordinator and            *)
(* findGroupCoordinatorMetadata                                            *)
(***************************************************************************)

\* C2: in every attempt of Cluster.metadata a LEADER_NOT_AVAILABLE failure is
\* rethrown to the retrier, and a failure of any other kind, raised by
\* refreshMetadataIfNecessary or by the broker's metadata call made through
\* withBroker, is passed to bail: no further attempt is made and that error
\* is surfaced.
C2_MetadataBailsAllButLeaderNotAvailable ==
    lastAttempt.op = "metadata" =>
        IF lastAttempt.error.type = "LEADER_NOT_AVAILABLE"
        THEN lastAttempt.disposition = "throw"
        ELSE /\ lastAttempt.disposition = "bail"
             /\ pc = "done"
             /\ outcome = Rejected(lastAttempt.error)

\* C3: when BrokerPool.findBroker fails with BrokerNotFound, LockTimeout or a
\* connection refusal, Cluster.findBroker triggers exactly one refresh and
\* fails with that same error, whatever the outcome of the refresh; on any
\* other error it triggers no refresh and fails with that error.
C3_FindBrokerRefreshesAndRethrows ==
    (lastFindBroker.called /\ lastFindBroker.poolError # NoErr) =>
        /\ lastFindBroker.thrown = lastFindBroker.poolError
        /\ lastFindBroker.refreshes =
               IF \/ lastFindBroker.poolError.name = "KafkaJSBrokerNotFound"
                  \/ lastFindBroker.poolError.name = "KafkaJSLockTimeout"
                  \/ lastFindBroker.poolError.code = "ECONNREFUSED"
               THEN 1
               ELSE 0

\* C4: in every attempt of findGroupCoordinator a failure that is
\* BrokerNotFound, GROUP_COORDINATOR_NOT_AVAILABLE or a connection refusal,
\* from findGroupCoordinatorMetadata or from findBroker, is followed by a
\* metadata refresh before it is rethrown to the outer retrier; any other
\* failure is bailed and ends the operation.
C4_CoordinatorRefreshesBeforeRethrow ==
    lastAttempt.op = "findGroupCoordinator" =>
        IF \/ lastAttempt.error.name = "KafkaJSBrokerNotFound"
           \/ lastAttempt.error.type = "GROUP_COORDINATOR_NOT_AVAILABLE"
           \/ lastAttempt.error.code = "ECONNREFUSED"
        THEN lastAttempt.disposition = "throw" /\ lastAttempt.refreshes >= 1
        ELSE /\ lastAttempt.disposition = "bail"
             /\ pc = "done"
             /\ outcome = Rejected(lastAttempt.error)

\* C5: in findGroupCoordinatorMetadata a GROUP_COORDINATOR_NOT_AVAILABLE
\* answer is rethrown for retry, any other error is bailed without retry, a
\* non-empty answer is returned, and an empty answer makes the operation fail
\* with GroupCoordinatorNotFound.
C5_CoordinatorMetadataOutcomes ==
    lastCoordinatorMetadata.queries > 0 =>
        LET m == lastCoordinatorMetadata
        IN  CASE m.answer.kind = "error"
                     /\ m.answer.error.type = "GROUP_COORDINATOR_NOT_AVAILABLE" ->
                     /\ m.decision = "throw"
                     /\ m.finished => (m.queries = Retries + 1 /\ m.thrown = m.answer.error)
              [] m.answer.kind = "error"
                     /\ m.answer.error.type # "GROUP_COORDINATOR_NOT_AVAILABLE" ->
                     m.decision = "bail" /\ m.finished /\ m.thrown = m.answer.error
              [] m.answer.kind = "metadata" ->
                     m.decision = "return" /\ m.finished /\ m.thrown = NoErr
              [] m.answer.kind = "empty" ->
                     m.finished /\ m.thrown = GroupCoordinatorNotFound

-----------------------------------------------------------------------------
(***************************************************************************)
(* Properties of findControllerBroker                                      *)
(***************************************************************************)

\* The part of C12 about a missing controller: without a snapshot, or with a
\* controllerId that is null or undefined, findControllerBroker fails with
\* MetadataNotLoaded and has made no broker lookup and no metadata refresh.
ControllerMissingFailsOffline ==
    (call.op = "findControllerBroker" /\ call.controller \in {"noSnapshot", "null", "undefined"}) =>
        /\ pc = "done"
        /\ outcome = Rejected(MetadataNotLoaded)
        /\ call.lookups = 0
        /\ call.attemptRefreshes = 0
        /\ ~lastFindBroker.called

\* C12 as stated: a missing controller fails offline with MetadataNotLoaded;
\* with a controllerId set, findControllerBroker returns the broker found for
\* that id or fails with BrokerNotFound.
C12_ControllerBrokerOrNotFound ==
    /\ ControllerMissingFailsOffline
    /\ (call.op = "findControllerBroker" /\ call.controller \in ControllerIds /\ pc = "done") =>
           \/ outcome = Resolved /\ lastFindBroker.broker = "broker"
           \/ outcome = Rejected(BrokerNotFound)

\* C12, amended: a missing controller fails offline with MetadataNotLoaded;
\* with a controllerId set, findControllerBroker makes one findBroker call
\* for that id, and returns its broker, fails with BrokerNotFound when that
\* call yields no broker, or fails with the error that call fails with.
C12_ControllerBrokerOrFindBrokerError ==
    /\ ControllerMissingFailsOffline
    /\ (call.op = "findControllerBroker" /\ call.controller \in ControllerIds) =>
           /\ call.lookups = 1
           /\ call.nodeId = call.controller
           /\ pc = "done" =>
                  /\ lastFindBroker.called
                  /\ outcome =
                         IF lastFindBroker.thrown # NoErr THEN Rejected(lastFindBroker.thrown)
                         ELSE IF lastFindBroker.broker = "undefined" THEN Rejected(BrokerNotFound)
                         ELSE Resolved

\* findControllerBroker has failed with MetadataNotLoaded on a snapshot whose
\* controllerId is null.
C12_Witness ==
    /\ call.op = "findControllerBroker"
    /\ call.controller = "null"
    /\ outcome = Rejected(MetadataNotLoaded)

\* findControllerBroker has returned the broker of controller 0.
C12_WitnessFound ==
    /\ call.op = "findControllerBroker"
    /\ call.controller = "0"
    /\ pc = "done"
    /\ outcome = Resolved

-----------------------------------------------------------------------------
(***************************************************************************)
(* Properties of fetchTopicsOffset                                         *)
(***************************************************************************)

\* The call has got past the indexing loop: findLeaderForPartitions threw
\* for no entry.
IndexingSucceeded ==
    /\ offsetFetch.status # "none"
    /\ offsetFetch.error.name \notin {TopicMetadataNotLoaded, InvalidPartitionMetadata}

\* The (topic, partition) pairs the input asks for.
RequestedBy(topic, partitionId) ==
    {i \in 1..Len(offsetFetch.input) :
        /\ offsetFetch.input[i].topic = topic
        /\ \E j \in 1..Len(offsetFetch.input[i].partitions) :
               offsetFetch.input[i].partitions[j].partition.digits = partitionId}

\* The listOffsets request to a leader has been issued.
WasSent(nodeId) == offsetFetch.requests[nodeId].topics # EmptyObject

\* How often a partition of a topic occurs in the request sent to a leader.
TimesSent(nodeId, topic, partitionId) ==
    LET topics == offsetFetch.requests[nodeId].topics
    IN  IF topic \in DOMAIN topics
        THEN Cardinality({k \in 1..Len(topics[topic]) :
                             topics[topic][k].partition.digits = partitionId})
        ELSE 0

\* C13 as stated: one listOffsets request per distinct leader of the
\* requested partitions; every requested (topic, partition) that has metadata
\* occurs in the request sent to its leader exactly once, with timestamp -2
\* when the fromBeginning of an entry that requested it is true and -1
\* otherwise; a partition without metadata occurs in no request.
C13_OneRequestPerLeader ==
    IndexingSucceeded =>
        /\ DOMAIN offsetFetch.requests =
               {n \in Nodes : \E t \in Topics, p \in FetchPartitionIds :
                                  RequestedBy(t, p) # {} /\ n \in LeadersInSnapshot(t, p)}
        /\ \A n \in DOMAIN offsetFetch.requests :
               WasSent(n) =>
                   \A t \in Topics, p \in FetchPartitionIds :
                       IF RequestedBy(t, p) # {} /\ n \in LeadersInSnapshot(t, p)
                       THEN /\ TimesSent(n, t, p) = 1
                            /\ \A k \in 1..Len(offsetFetch.requests[n].topics[t]) :
                                   offsetFetch.requests[n].topics[t][k].partition.digits = p =>
                                       \E i \in RequestedBy(t, p) :
                                           offsetFetch.requests[n].topics[t][k].timestamp =
                                               IF offsetFetch.input[i].fromBeginning
                                               THEN -2
                                               ELSE -1
                       ELSE TimesSent(n, t, p) = 0

\* C13, the part about presence: every requested (topic, partition) that has
\* metadata has a request to its leader, and occurs in that request once the
\* request is sent.
C13_RequestedPartitionsAreSent ==
    IndexingSucceeded =>
        \A t \in Topics, p \in FetchPartitionIds :
            RequestedBy(t, p) # {} =>
                \A n \in LeadersInSnapshot(t, p) :
                    /\ n \in DOMAIN offsetFetch.requests
                    /\ WasSent(n) => TimesSent(n, t, p) >= 1

\* The response entries of all requests, as (leader, position) pairs, and how
\* often a (partition, offset) pair was returned for a topic.
ResponseEntries ==
    {<<n, k>> \in (DOMAIN offsetFetch.requests) \X (1..Len(TopicList)) :
        k <= Len(offsetFetch.requests[n].responses)}
TimesReturned(topic, partitionId, offset) ==
    Cardinality({<<n, k, j>> \in (DOMAIN offsetFetch.requests) \X (1..Len(TopicList))
                                     \X (1..(MaxFetchPartitions * 2)) :
                    /\ <<n, k>> \in ResponseEntries
                    /\ offsetFetch.requests[n].responses[k].topic = topic
                    /\ j <= Len(offsetFetch.requests[n].responses[k].partitions)
                    /\ offsetFetch.requests[n].responses[k].partitions[j].partition.digits
                           = partitionId
                    /\ offsetFetch.requests[n].responses[k].partitions[j].offset = offset})
TimesInResult(i, partitionId, offset) ==
    Cardinality({j \in 1..Len(offsetFetch.result[i].partitions) :
                    /\ offsetFetch.result[i].partitions[j].partition.digits = partitionId
                    /\ offsetFetch.result[i].partitions[j].offset = offset})

\* C14: when a findBroker or listOffsets call of the operation has failed,
\* the operation has failed with the error of a failed request and holds no
\* result, whatever the other leaders answered; when it has resolved, every
\* request has resolved and the result has exactly one entry per topic of the
\* responses, holding each returned (partition, offset) of that topic as
\* often as the leaders returned it.
C14_AllOrNothing ==
    /\ (\E n \in DOMAIN offsetFetch.requests : offsetFetch.requests[n].stage = "rejected") =>
           /\ offsetFetch.status = "rejected"
           /\ offsetFetch.result = <<>>
           /\ \E n \in DOMAIN offsetFetch.requests :
                  /\ offsetFetch.requests[n].stage = "rejected"
                  /\ offsetFetch.error = offsetFetch.requests[n].error
    /\ offsetFetch.status = "rejected" => offsetFetch.result = <<>>
    /\ offsetFetch.status = "resolved" =>
           /\ \A n \in DOMAIN offsetFetch.requests : offsetFetch.requests[n].stage = "resolved"
           /\ \A i, j \in 1..Len(offsetFetch.result) :
                  offsetFetch.result[i].topic = offsetFetch.result[j].topic => i = j
           /\ {offsetFetch.result[i].topic : i \in 1..Len(offsetFetch.result)} =
                  {offsetFetch.requests[e[1]].responses[e[2]].topic : e \in ResponseEntries}
           /\ \A i \in 1..Len(offsetFetch.result) :
                  \A p \in FetchPartitionIds, o \in Offsets :
                      TimesInResult(i, p, o) = TimesReturned(offsetFetch.result[i].topic, p, o)

\* The operation has resolved with one entry that merges the partitions of a
\* topic returned by two leaders.
C14_Witness ==
    /\ offsetFetch.status = "resolved"
    /\ DOMAIN offsetFetch.requests = Nodes
    /\ \E t \in Topics :
           /\ \A n \in Nodes : \E k \in 1..Len(offsetFetch.requests[n].responses) :
                  offsetFetch.requests[n].responses[k].topic = t
           /\ \E i \in 1..Len(offsetFetch.result) :
                  offsetFetch.result[i].topic = t /\ Len(offsetFetch.result[i].partitions) >= 2

\* The operation has failed although one leader answered.
C14_WitnessPartial ==
    /\ offsetFetch.status = "rejected"
    /\ \E n \in DOMAIN offsetFetch.requests : offsetFetch.requests[n].stage = "resolved"
    /\ \E n \in DOMAIN offsetFetch.requests : offsetFetch.requests[n].stage = "rejected"

-----------------------------------------------------------------------------
(***************************************************************************)
(* Properties of committedOffsets / markOffsetAsCommitted                  *)
(***************************************************************************)

\* committedOffsets({ groupId })[topic][partition], "undefined" when absent.
heldOffset(byGroup, groupId, topic, key) ==
    IF /\ byGroup[groupId].present
       /\ topic \in DOMAIN byGroup[groupId].topics
       /\ key \in DOMAIN byGroup[groupId].topics[topic]
    THEN byGroup[groupId].topics[topic][key]
    ELSE "undefined"

MarkStep ==
    offsetCall'.op = "markOffsetAsCommitted" =>
        \A g \in Groups, t \in Topics, k \in PartitionKeys :
            heldOffset(committedOffsetsByGroup', g, t, k) =
                IF <<g, t, k>> = <<offsetCall'.groupId, offsetCall'.topic, offsetCall'.key>>
                THEN offsetCall'.offset
                ELSE heldOffset(committedOffsetsByGroup, g, t, k)

ReadStep ==
    offsetCall'.op = "committedOffsets" =>
        /\ \A g \in Groups, t \in Topics, k \in PartitionKeys :
               heldOffset(committedOffsetsByGroup', g, t, k) =
                   heldOffset(committedOffsetsByGroup, g, t, k)
        /\ committedOffsetsByGroup'[offsetCall'.groupId].present
        /\ offsetCall'.first =>
               committedOffsetsByGroup'[offsetCall'.groupId].topics = EmptyObject

-----------------------------------------------------------------------------
(***************************************************************************)
(* Properties of the single-flight refresh                                 *)
(***************************************************************************)

\* The callers whose refreshMetadata call is waiting for the pool.
Awaiting == {k \in TaskIds : tasks[k].pc = "awaitRefresh"}

\* C16: while refreshMetadata calls are waiting, one Broker.metadata request
\* has been issued for them, however many they are; and a step that lets one
\* of them continue successfully is the step that installs the snapshot of
\* that request, and it lets every waiting caller continue.
C16_SingleFlightRefresh ==
    [][/\ Awaiting' # {} => (inflight'.active /\ inflight'.invocations = 1)
       /\ \A k \in Awaiting :
              tasks'[k].pc = "resolved" =>
                  /\ inflight.invocations = 1
                  /\ metadata' = SnapshotFor(inflight.topics)
                  /\ completedRefreshes' = completedRefreshes \cup {inflight.topics}
                  /\ \A j \in Awaiting : tasks'[j].pc = "resolved"]_vars

\* Two callers, one of them through Cluster.refreshMetadata and the other
\* through addTargetTopic, have been resolved by one fetch, whose snapshot
\* is installed.
C16_Witness ==
    /\ tasks[1].pc = "resolved" /\ tasks[2].pc = "resolved"
    /\ tasks[1].api = "refreshMetadata" /\ tasks[2].api = "addTargetTopic"
    /\ tasks[1].refreshes = 1 /\ tasks[2].refreshes = 1
    /\ metadata.loaded
    /\ ~inflight.active

\* C20: when a call of addTargetTopic / addMultipleTargetTopics has failed
\* with the error of its refresh, and no other caller has touched the
\* cluster, the target set is what it was when the call began: it holds
\* none of the call's topics that were not targeted before the call.
C20_FailedRefreshLeavesTargets ==
    \A k \in TaskIds :
        (/\ tasks[k].pc = "failed"
         /\ tasks[k].api \in {"addTargetTopic", "addMultipleTargetTopics"}
         /\ \A j \in TaskIds \ {k} : tasks[j].pc = "idle") =>
            Range(targetTopics) \cap (Range(tasks[k].topics) \ tasks[k].targetedBefore) = {}

-----------------------------------------------------------------------------
(***************************************************************************)
(* Properties of pause and resume over their whole argument list           *)
(***************************************************************************)

\* C18: after a pause call, every (topic, partition) for which isPaused was
\* true before the call is still paused.
C18_PauseNeverUnpauses ==
    subCall.op = "pause" =>
        \A t \in Topics, p \in Partitions :
            isPaused(subCall.before, t, p) => isPaused(pausedPartitionsByTopic, t, p)

\* C19: after a resume call that failed with NonRetriable, isPaused answers
\* for every (topic, partition) what it answered before the call.
C19_FailedResumeChangesNothing ==
    (subCall.op = "resume" /\ subCall.error = NonRetriable) =>
        \A t \in Topics, p \in Partitions :
            isPaused(pausedPartitionsByTopic, t, p) = isPaused(subCall.before, t, p)

-----------------------------------------------------------------------------
(***************************************************************************)
(* Termination of findGroupCoordinator                                     *)
(***************************************************************************)

\* An awaited pool or broker operation of the call in progress settles.
Settle ==
    \/ MetadataRefreshIfNecessary
    \/ MetadataWithBroker
    \/ FindBrokerFind
    \/ FindBrokerRefresh
    \/ CoordinatorMetadataWithBroker
    \/ CoordinatorMetadataQuery
    \/ CoordinatorRefresh

\* Every awaited operation settles (each network request carries a request
\* timeout); nothing obliges a caller to begin a call.
SpecTermination == Init /\ [][Next]_vars /\ WF_vars(Settle)

\* C17: a findGroupCoordinator call is in at most its (Retries + 1)-th attempt
\* and the findGroupCoordinatorMetadata call of an attempt has made at most
\* Retries + 1 broker queries; when the call has failed it has failed with
\* the error its last attempt threw; and every call, whatever the cluster
\* answers (GROUP_COORDINATOR_NOT_AVAILABLE to every query included), ends.
C17_FindGroupCoordinatorTerminates ==
    /\ [](call.op = "findGroupCoordinator" =>
            /\ call.retryCount + 1 <= Retries + 1
            /\ call.innerRetryCount + 1 <= Retries + 1
            /\ lastCoordinatorMetadata.queries <= Retries + 1
            /\ (pc = "done" /\ outcome.status = "rejected") =>
                   outcome.error = lastAttempt.thrown)
    /\ (call.op = "findGroupCoordinator") ~> (pc = "done")

\* The call has failed with GROUP_COORDINATOR_NOT_AVAILABLE after Retries + 1
\* attempts, the last of which made Retries + 1 queries that were all
\* answered with that error.
C17_Witness ==
    /\ pc = "done"
    /\ call.op = "findGroupCoordinator"
    /\ call.retryCount = Retries
    /\ call.innerRetryCount = Retries
    /\ lastCoordinatorMetadata.queries = Retries + 1
    /\ lastCoordinatorMetadata.answer.error = CoordinatorNotAvailable
    /\ lastAttempt.source = "findGroupCoordinatorMetadata"
    /\ outcome = Rejected(CoordinatorNotAvailable)

=============================================================================
